---- MODULE Spec2Model ----
(***************************************************************************)
(* A model of the health-profile analysis pipeline of                      *)
(* jyolx/ai-health-profiler: the field extractor (ocr.js), the guardrail   *)
(* validator (guardrails.js), the factor extractor (factors.js), the risk  *)
(* scorer (risk.js), the recommendation generator (recommendations.js) and *)
(* the /analyze handler that chains them (routes.js).                      *)
(*                                                                         *)
(* Conventions.  JavaScript numbers that carry a fraction in the program   *)
(* (age, bmi, sleep) are held in tenths (bmi 24.2 is 242); a confidence is *)
(* held in hundredths (0.3 is 30), the precision toFixed(2) leaves.  A     *)
(* JavaScript value is a record [t, n, s]: its type tag, its number and    *)
(* its string.  An AnswerSet is a function over Keys whose absent keys     *)
(* hold Absent.                                                            *)
(***************************************************************************)
EXTENDS Integers, Sequences, FiniteSets, TLC

VARIABLES
    pc,               \* position of the operation in progress
    req,              \* the request: its input kind and the collaborators' behaviour
    parsedData,       \* processHealthProfile's result: answers, missing_fields, confidence
    validation,       \* validateInput's result
    factorData,       \* extractFactors' result
    riskData,         \* calculateRisk's result
    recommendations,  \* generateRecommendations' result
    response,         \* what the handler sent
    calls             \* the stages invoked so far, in order

vars == <<pc, req, parsedData, validation, factorData, riskData,
          recommendations, response, calls>>

----------------------------------------------------------------------------
(* JavaScript values *)

Num(n)  == [t |-> "number",  n |-> n, s |-> ""]
Bool(b) == [t |-> "boolean", n |-> IF b THEN 1 ELSE 0, s |-> ""]
Str(s)  == [t |-> "string",  n |-> 0, s |-> s]
Absent  == [t |-> "absent",  n |-> 0, s |-> ""]

\* The strings of the model that JavaScript's Number() reads as a number,
\* with the number they give (in tenths).
NumericStrings == {"150", "70"}
StringToNumber(s) == IF s = "150" THEN 1500 ELSE 700

\* The strings Joi.boolean() converts (case-insensitively) to a boolean.
BooleanStrings == {"true", "false"}

RequiredFields == <<"age", "smoker", "exercise", "diet">>
SchemaKeys == <<"age", "smoker", "exercise", "diet", "bmi", "sleep", "alcohol">>
\* "extra" stands for one key outside the schema that a structured input may carry.
Keys == {"age", "smoker", "exercise", "diet", "bmi", "sleep", "alcohol", "extra"}

Has(answers, k) == answers[k].t # "absent"

----------------------------------------------------------------------------
(* guardrails.js *)

ExerciseLevels == {"never", "rarely", "sometimes", "often", "daily"}
AlcoholLevels == {"never", "rarely", "sometimes", "often", "no"}

\* Joi.number(): a number, or (convert: true) a string that reads as one.
\* The result is [ok, n].
JoiNumber(v) ==
    IF v.t = "number" THEN [ok |-> TRUE, n |-> v.n]
    ELSE IF v.t = "string" /\ v.s \in NumericStrings
         THEN [ok |-> TRUE, n |-> StringToNumber(v.s)]
         ELSE [ok |-> FALSE, n |-> 0]

\* Joi.boolean(): a boolean, or (convert: true) the strings "true" and "false".
JoiBoolean(v) == v.t = "boolean" \/ (v.t = "string" /\ v.s \in BooleanStrings)

\* A mutant of JoiRange: the bounds taken as exclusive.
JoiRange_Exclusive(n, min, max) ==
    IF n <= min THEN "number.min" ELSE IF n >= max THEN "number.max" ELSE ""

\* .min(min).max(max) of Joi.number(): both bounds are inclusive.
JoiRange(n, min, max) ==
    IF n < min THEN "number.min" ELSE IF n > max THEN "number.max" ELSE ""

\* The Joi error code of one key's value against its schema, "" when it passes.
\* A key that is absent is optional: no key of the schema is .required().
FieldError(k, v) ==
    IF v.t = "absent" THEN ""
    ELSE CASE k = "age" ->
                LET c == JoiNumber(v) IN
                IF ~c.ok THEN "number.base"
                ELSE IF c.n % 10 # 0 THEN "number.integer"
                ELSE JoiRange(c.n, 10, 1200)
           [] k = "smoker" -> IF JoiBoolean(v) THEN "" ELSE "boolean.base"
           [] k = "exercise" ->
                IF v.t = "string" /\ v.s \in ExerciseLevels THEN "" ELSE "any.only"
           [] k = "diet" ->
                IF v.t # "string" THEN "string.base"
                ELSE IF v.s = "" THEN "string.empty"
                ELSE ""
           [] k = "bmi" ->
                LET c == JoiNumber(v) IN
                IF ~c.ok THEN "number.base" ELSE JoiRange(c.n, 100, 500)
           [] k = "sleep" ->
                LET c == JoiNumber(v) IN
                IF ~c.ok THEN "number.base" ELSE JoiRange(c.n, 0, 240)
           [] k = "alcohol" ->
                IF JoiBoolean(v) \/ (v.t = "string" /\ v.s \in AlcoholLevels)
                THEN "" ELSE "alternatives.match"
           [] OTHER -> "object.unknown"

\* A mutant of FirstError: the validation does not stop at its first error,
\* and the error reported is the last one found.
RECURSIVE FirstError_Last(_, _, _)
FirstError_Last(answers, keys, i) ==
    IF i > Len(keys)
    THEN IF Has(answers, "extra")
         THEN [field |-> "extra", message |-> "object.unknown"]
         ELSE [field |-> "", message |-> ""]
    ELSE LET k == keys[i]
             e == FieldError(k, answers[k])
             later == FirstError_Last(answers, keys, i + 1)
         IN  IF later.field # "" THEN later
             ELSE IF e # "" THEN [field |-> k, message |-> e]
             ELSE later

\* schema.validate(answers) with abortEarly: the keys of the schema are
\* validated in the order of their definition, then the keys outside it; the
\* first error ends the validation.  The result is [field, message], with
\* field "" when there is no error.
RECURSIVE FirstError(_, _, _)
FirstError(answers, keys, i) ==
    IF i > Len(keys)
    THEN IF Has(answers, "extra")
         THEN [field |-> "extra", message |-> "object.unknown"]
         ELSE [field |-> "", message |-> ""]
    ELSE LET k == keys[i]
             e == FieldError(k, answers[k])
         IN  IF e # "" THEN [field |-> k, message |-> e]
             ELSE FirstError(answers, keys, i + 1)

\* A mutant of SchemaValidate: the keys validated from the last to the first.
SchemaValidate_Reversed(answers) ==
    FirstError(answers, [i \in 1..Len(SchemaKeys) |-> SchemaKeys[Len(SchemaKeys) + 1 - i]], 1)

SchemaValidate(answers) == FirstError(answers, SchemaKeys, 1)

\* A mutant of TooManyMissing: only a profile with every required field
\* missing is incomplete.
TooManyMissing_All(missing_fields) == Len(missing_fields) * 100 >= 100 * 4

\* (missingCount / totalRequiredFields) * 100 > 50, with totalRequiredFields = 4,
\* cross-multiplied.
TooManyMissing(missing_fields) == Len(missing_fields) * 100 > 50 * 4

NoResponse == [keys |-> {}, status |-> "", reason |-> "", missing_fields |-> <<>>,
               confidence |-> 0, field |-> ""]

\* A mutant of validateInput: the schema gate is evaluated first.
validateInput_SchemaFirst(pd) ==
    LET error == SchemaValidate(pd.answers)
    IN  IF error.field # ""
        THEN [isValid |-> FALSE,
              response |-> [keys |-> {"status", "reason", "field"},
                            status |-> "invalid_data",
                            reason |-> error.message,
                            missing_fields |-> <<>>,
                            confidence |-> 0,
                            field |-> error.field]]
        ELSE IF TooManyMissing(pd.missing_fields)
        THEN [isValid |-> FALSE,
              response |-> [keys |-> {"status", "reason", "missing_fields", "confidence"},
                            status |-> "incomplete_profile",
                            reason |-> ">50% fields missing",
                            missing_fields |-> pd.missing_fields,
                            confidence |-> pd.confidence,
                            field |-> ""]]
        ELSE IF pd.confidence < 30
        THEN [isValid |-> FALSE,
              response |-> [keys |-> {"status", "reason", "confidence"},
                            status |-> "low_confidence",
                            reason |-> "OCR confidence too low",
                            missing_fields |-> <<>>,
                            confidence |-> pd.confidence,
                            field |-> ""]]
        ELSE [isValid |-> TRUE, response |-> NoResponse]

validateInput(pd) ==
    LET error == SchemaValidate(pd.answers)
    IN  IF TooManyMissing(pd.missing_fields)
        THEN [isValid |-> FALSE,
              response |-> [keys |-> {"status", "reason", "missing_fields", "confidence"},
                            status |-> "incomplete_profile",
                            reason |-> ">50% fields missing",
                            missing_fields |-> pd.missing_fields,
                            confidence |-> pd.confidence,
                            field |-> ""]]
        ELSE IF pd.confidence < 30
        THEN [isValid |-> FALSE,
              response |-> [keys |-> {"status", "reason", "confidence"},
                            status |-> "low_confidence",
                            reason |-> "OCR confidence too low",
                            missing_fields |-> <<>>,
                            confidence |-> pd.confidence,
                            field |-> ""]]
        ELSE IF error.field # ""
        THEN [isValid |-> FALSE,
              response |-> [keys |-> {"status", "reason", "field"},
                            status |-> "invalid_data",
                            reason |-> error.message,
                            missing_fields |-> <<>>,
                            confidence |-> 0,
                            field |-> error.field]]
        ELSE [isValid |-> TRUE, response |-> NoResponse]

----------------------------------------------------------------------------
(* JavaScript's coercions *)

\* if (v): undefined, 0, '' and false are falsy.
Truthy(v) ==
    CASE v.t = "absent"  -> FALSE
      [] v.t = "number"  -> v.n # 0
      [] v.t = "string"  -> v.s # ""
      [] v.t = "boolean" -> v.n = 1
      [] OTHER -> TRUE

\* The number a relational operator (>=, >, <) or a subtraction reads v as:
\* [nan, n].  undefined and a string that is no number give NaN, '' gives 0,
\* true gives 1 (10 tenths).
ToNumber(v) ==
    CASE v.t = "number"  -> [nan |-> FALSE, n |-> v.n]
      [] v.t = "boolean" -> [nan |-> FALSE, n |-> v.n * 10]
      [] v.t = "string"  ->
            IF v.s = "" THEN [nan |-> FALSE, n |-> 0]
            ELSE IF v.s \in NumericStrings
                 THEN [nan |-> FALSE, n |-> StringToNumber(v.s)]
                 ELSE [nan |-> TRUE, n |-> 0]
      [] OTHER -> [nan |-> TRUE, n |-> 0]

\* A comparison with NaN is false.
Ge(v, bound) == LET x == ToNumber(v) IN ~x.nan /\ x.n >= bound
Gt(v, bound) == LET x == ToNumber(v) IN ~x.nan /\ x.n > bound
Lt(v, bound) == LET x == ToNumber(v) IN ~x.nan /\ x.n < bound

\* Object.keys(answers).length
KeyCount(answers) == Cardinality({k \in Keys : Has(answers, k)})

----------------------------------------------------------------------------
(* factors.js *)

\* The diet texts of the model (lower-cased: none holds an upper-case letter)
\* that include 'high sugar', 'fast food' or 'processed', and those that
\* include 'high fat' or 'fried'.
PoorDietTexts == {"high sugar", "high sugar processed foods and fried meals",
                  "high sugar and processed foods"}
HighFatTexts == {"high sugar processed foods and fried meals", "fried"}

\* v.toLowerCase() raises a TypeError when v is truthy and no string.
ThrowsOnLowerCase(v) == Truthy(v) /\ v.t # "string"

extractFactors(answers) ==
    LET age == IF Ge(answers["age"], 650) THEN <<"advanced age">> ELSE <<>>
        smoking == IF answers["smoker"] = Bool(TRUE) THEN <<"smoking">> ELSE <<>>
        exercise == IF Truthy(answers["exercise"])
                       /\ answers["exercise"].s \in {"never", "rarely"}
                    THEN <<"low exercise">> ELSE <<>>
        poorDiet == IF Truthy(answers["diet"]) /\ answers["diet"].s \in PoorDietTexts
                    THEN <<"poor diet">> ELSE <<>>
        highFat == IF Truthy(answers["diet"]) /\ answers["diet"].s \in HighFatTexts
                   THEN <<"high fat intake">> ELSE <<>>
        bmi == IF ~Truthy(answers["bmi"]) THEN <<>>
               ELSE IF Ge(answers["bmi"], 300) THEN <<"obesity">>
               ELSE IF Ge(answers["bmi"], 250) THEN <<"overweight">>
               ELSE IF Lt(answers["bmi"], 185) THEN <<"underweight">>
               ELSE <<>>
        sleep == IF Truthy(answers["sleep"])
                    /\ (Lt(answers["sleep"], 60) \/ Gt(answers["sleep"], 90))
                 THEN <<"poor sleep">> ELSE <<>>
        alcohol == IF Truthy(answers["alcohol"])
                      /\ answers["alcohol"].s \in {"often", "sometimes"}
                   THEN <<"alcohol consumption">> ELSE <<>>
        dataPoints == KeyCount(answers)
    IN  [threw |-> \/ ThrowsOnLowerCase(answers["exercise"])
                   \/ ThrowsOnLowerCase(answers["diet"])
                   \/ ThrowsOnLowerCase(answers["alcohol"]),
         factors |-> age \o smoking \o exercise \o poorDiet \o highFat
                     \o bmi \o sleep \o alcohol,
         confidence |-> IF dataPoints < 3 THEN 70 ELSE 90]

----------------------------------------------------------------------------
(* risk.js *)

FactorTags == {"smoking", "poor diet", "low exercise", "obesity", "overweight",
               "underweight", "advanced age", "poor sleep", "high fat intake",
               "alcohol consumption"}

riskWeights ==
    [f \in FactorTags |->
        CASE f = "smoking" -> 25
          [] f = "poor diet" -> 15
          [] f = "low exercise" -> 15
          [] f = "obesity" -> 20
          [] f = "overweight" -> 10
          [] f = "underweight" -> 12
          [] f = "advanced age" -> 15
          [] f = "poor sleep" -> 10
          [] f = "high fat intake" -> 12
          [] f = "alcohol consumption" -> 8]

\* The tables are object literals: a lookup of a name that every object
\* inherits from Object.prototype ('constructor', 'toString', ...) gives that
\* member, a function, and not undefined.
InheritedNames == {"constructor"}

\* A mutant of Weight: the table is not consulted, and every tag weighs the
\* default 5.
Weight_Default(factor) == [fn |-> FALSE, w |-> 5]

\* riskWeights[factor] || 5, as [fn, w]: fn when the lookup gives an inherited
\* function, which is truthy and so is kept as the weight.
Weight(factor) ==
    IF factor \in FactorTags THEN [fn |-> FALSE, w |-> riskWeights[factor]]
    ELSE IF factor \in InheritedNames THEN [fn |-> TRUE, w |-> 0]
    ELSE [fn |-> FALSE, w |-> 5]

\* The forEach loop of calculateRisk: score += weight.  Adding a function to a
\* number gives a string, and everything added later is appended to it:
\* [str, n] is the score after the factors from i on.
RECURSIVE BaseScore(_, _, _)
BaseScore(factors, i, acc) ==
    IF i > Len(factors) THEN acc
    ELSE LET x == Weight(factors[i]) IN
         BaseScore(factors, i + 1,
                   IF acc.str \/ x.fn THEN [str |-> TRUE, n |-> 0]
                   ELSE [str |-> FALSE, n |-> acc.n + x.w])

\* Math.floor((age - 50) / 5) * 2 for age > 50, with the age in tenths.
AgeBonus(age) ==
    IF Truthy(age) /\ Gt(age, 500) THEN ((ToNumber(age).n - 500) \div 50) * 2 ELSE 0

\* A mutant of Clamp: the upper bound is not applied.
Clamp_NoMax(score) ==
    IF score.str THEN [nan |-> TRUE, v |-> 0]
    ELSE [nan |-> FALSE, v |-> IF score.n < 0 THEN 0 ELSE score.n]

\* Math.min(100, Math.max(0, score)): a string that is no number gives NaN.
Clamp(score) ==
    IF score.str THEN [nan |-> TRUE, v |-> 0]
    ELSE [nan |-> FALSE,
          v |-> IF score.n > 100 THEN 100 ELSE IF score.n < 0 THEN 0 ELSE score.n]

\* score <= 30, score <= 60: false for NaN.
RiskLevel(score) ==
    IF ~score.nan /\ score.v <= 30 THEN "low"
    ELSE IF ~score.nan /\ score.v <= 60 THEN "medium"
    ELSE "high"

\* A mutant of calculateRisk: the rationale is not cut to its first three tags.
calculateRisk_NoSlice(factors, answers) ==
    LET base == BaseScore(factors, 1, [str |-> FALSE, n |-> 0])
        adjusted == IF base.str THEN base
                    ELSE [str |-> FALSE, n |-> base.n + AgeBonus(answers["age"])]
        score == Clamp(adjusted)
    IN  [risk_level |-> RiskLevel(score),
         score |-> score,
         rationale |-> factors]

calculateRisk(factors, answers) ==
    LET base == BaseScore(factors, 1, [str |-> FALSE, n |-> 0])
        adjusted == IF base.str THEN base
                    ELSE [str |-> FALSE, n |-> base.n + AgeBonus(answers["age"])]
        score == Clamp(adjusted)
    IN  [risk_level |-> RiskLevel(score),
         score |-> score,
         rationale |-> SubSeq(factors, 1, IF Len(factors) < 3 THEN Len(factors) ELSE 3)]

----------------------------------------------------------------------------
(* recommendations.js *)

factorRecommendations ==
    [f \in FactorTags |->
        CASE f = "smoking" -> "Quit smoking with professional support"
          [] f = "poor diet" -> "Reduce sugar and increase vegetables"
          [] f = "low exercise" -> "Walk 30 minutes daily"
          [] f = "obesity" -> "Consult healthcare provider for weight management"
          [] f = "overweight" -> "Aim for gradual weight loss through diet and exercise"
          [] f = "underweight" -> "Increase calorie intake with nutrient-dense foods"
          [] f = "advanced age" -> "Regular health checkups and screenings"
          [] f = "poor sleep" -> "Maintain consistent sleep schedule (7-8 hours)"
          [] f = "high fat intake" -> "Choose lean proteins and healthy fats"
          [] f = "alcohol consumption" -> "Limit alcohol intake to recommended guidelines"]

healthcareRec == "Consult healthcare provider for comprehensive assessment"
stressRec == "Practice stress management techniques"
hydrationRec == "Stay hydrated with 8 glasses of water daily"

\* What a lookup of an inherited name pushes on the list: a function.
InheritedFunction == "[Function]"

\* rec.includes(word), for the strings the static strategy can hold.
Includes(rec, word) ==
    CASE word = "healthcare" ->
            rec \in {"Consult healthcare provider for weight management", healthcareRec}
      [] word = "stress" -> rec = stressRec
      [] OTHER -> FALSE

\* recommendations.some(rec => rec.includes(word)), as [found, threw]: the scan
\* stops at the first item that includes the word, and raises a TypeError at an
\* item that is no string.
RECURSIVE Some(_, _, _)
Some(recs, word, i) ==
    IF i > Len(recs) THEN [found |-> FALSE, threw |-> FALSE]
    ELSE IF recs[i] = InheritedFunction THEN [found |-> FALSE, threw |-> TRUE]
    ELSE IF Includes(recs[i], word) THEN [found |-> TRUE, threw |-> FALSE]
    ELSE Some(recs, word, i + 1)

\* The forEach loop of the static strategy: a tag with a truthy table entry
\* pushes it, any other tag is skipped.
RECURSIVE FactorRecs(_, _)
FactorRecs(factors, i) ==
    IF i > Len(factors) THEN <<>>
    ELSE (IF factors[i] \in FactorTags THEN <<factorRecommendations[factors[i]]>>
          ELSE IF factors[i] \in InheritedNames THEN <<InheritedFunction>>
          ELSE <<>>)
         \o FactorRecs(factors, i + 1)

Slice(s, n) == SubSeq(s, 1, IF Len(s) < n THEN Len(s) ELSE n)

generateStaticRecommendations(riskLevel, factors) ==
    LET r0 == FactorRecs(factors, 1)
        hc == IF riskLevel = "high" THEN Some(r0, "healthcare", 1)
              ELSE [found |-> TRUE, threw |-> FALSE]
        r1 == IF riskLevel = "high" /\ ~hc.found THEN Append(r0, healthcareRec) ELSE r0
        st == IF riskLevel \in {"medium", "high"} THEN Some(r1, "stress", 1)
              ELSE [found |-> TRUE, threw |-> FALSE]
        r2 == IF riskLevel \in {"medium", "high"} /\ ~st.found
              THEN Append(r1, stressRec) ELSE r1
        r3 == IF Len(r2) < 3 THEN Append(r2, hydrationRec) ELSE r2
    IN  [threw |-> hc.threw \/ st.threw,
         risk_level |-> riskLevel,
         factors |-> factors,
         recommendations |-> Slice(r3, 5),
         source |-> "static"]

\* A line of the AI collaborator's text is a sequence of characters: "1" stands
\* for a digit, "." for the dot, " " for white space and "a" for any other
\* character.

\* line.replace(/^\d+\.\s*/, ''): a leading run of digits, a dot and the white
\* space after it are removed; a line that does not start so is left as it is.
RECURSIVE DropWhile(_, _)
DropWhile(line, c) ==
    IF line # <<>> /\ Head(line) = c THEN DropWhile(Tail(line), c) ELSE line

StripNumber(line) ==
    LET rest == DropWhile(line, "1") IN
    IF line # <<>> /\ Head(line) = "1" /\ rest # <<>> /\ Head(rest) = "."
    THEN DropWhile(Tail(rest), " ")
    ELSE line

RECURSIVE DropTrailing(_, _)
DropTrailing(line, c) ==
    IF line # <<>> /\ line[Len(line)] = c
    THEN DropTrailing(SubSeq(line, 1, Len(line) - 1), c) ELSE line

Trim(line) == DropTrailing(DropWhile(line, " "), " ")

\* text.split('\n').map(strip and trim).filter(line => line.length > 0).slice(0, 5),
\* the text given as its lines.
RECURSIVE NonEmptyLines(_, _)
NonEmptyLines(lines, i) ==
    IF i > Len(lines) THEN <<>>
    ELSE LET l == Trim(StripNumber(lines[i])) IN
         (IF Len(l) > 0 THEN <<l>> ELSE <<>>) \o NonEmptyLines(lines, i + 1)

ParseAIResponse(lines) == Slice(NonEmptyLines(lines, 1), 5)

\* A mutant of generateRecommendations: no catch around the AI call, so that
\* its failure is raised to the caller.
generateRecommendations_NoCatch(riskLevel, factors, hasKey, outcome, lines) ==
    IF hasKey /\ outcome = "text"
    THEN [threw |-> FALSE,
          risk_level |-> riskLevel,
          factors |-> factors,
          recommendations |-> ParseAIResponse(lines),
          source |-> "gemini-ai"]
    ELSE IF hasKey
    THEN [threw |-> TRUE, risk_level |-> riskLevel, factors |-> factors,
          recommendations |-> <<>>, source |-> ""]
    ELSE generateStaticRecommendations(riskLevel, factors)

\* A mutant of generateRecommendations: the list parsed from the AI response
\* is returned under the static strategy's tag.
generateRecommendations_StaticTag(riskLevel, factors, hasKey, outcome, lines) ==
    IF hasKey /\ outcome = "text"
    THEN [threw |-> FALSE,
          risk_level |-> riskLevel,
          factors |-> factors,
          recommendations |-> ParseAIResponse(lines),
          source |-> "static"]
    ELSE generateStaticRecommendations(riskLevel, factors)

\* generateRecommendations with the AI call settled: hasKey is whether
\* GEMINI_API_KEY is set; outcome is how ai.models.generateContent ended,
\* "text" (response.text is the lines), "undefined" (response.text is
\* undefined, and reading its length raises) or "throws".  Whatever is raised
\* inside the try block, a raise of the static strategy included, is caught
\* and answered by the static strategy, whose own raise then propagates.
generateRecommendations(riskLevel, factors, hasKey, outcome, lines) ==
    IF hasKey /\ outcome = "text"
    THEN [threw |-> FALSE,
          risk_level |-> riskLevel,
          factors |-> factors,
          recommendations |-> ParseAIResponse(lines),
          source |-> "gemini-ai"]
    ELSE generateStaticRecommendations(riskLevel, factors)

----------------------------------------------------------------------------
(* The inputs of the model *)

\* The most AnswerSet keys that differ from a reference profile.
MaxOverrides == 2

\* The low-risk and the high-risk reference AnswerSets.
LowRiskProfile ==
    [k \in Keys |->
        CASE k = "age" -> Num(350)
          [] k = "smoker" -> Bool(FALSE)
          [] k = "exercise" -> Str("daily")
          [] k = "diet" -> Str("balanced")
          [] k = "bmi" -> Num(242)
          [] k = "sleep" -> Num(75)
          [] k = "alcohol" -> Str("rarely")
          [] OTHER -> Absent]

HighRiskProfile ==
    [k \in Keys |->
        CASE k = "age" -> Num(680)
          [] k = "smoker" -> Bool(TRUE)
          [] k = "exercise" -> Str("never")
          [] k = "diet" -> Str("high sugar processed foods and fried meals")
          [] k = "bmi" -> Num(342)
          [] k = "sleep" -> Num(40)
          [] k = "alcohol" -> Str("often")
          [] OTHER -> Absent]

\* The values a key takes in the model besides its profile's: absent, valid,
\* on a bound of its range, outside it, and of another type.
FieldValues(k) ==
    CASE k = "age" -> {Absent, Num(1500), Num(1200), Num(425), Str("150")}
      [] k = "smoker" -> {Absent, Bool(TRUE), Str("maybe"), Str("true")}
      [] k = "exercise" -> {Absent, Str("rarely"), Str("jogging"), Num(30)}
      [] k = "diet" -> {Absent, Str(""), Str("high sugar")}
      [] k = "bmi" -> {Absent, Num(100), Num(95), Num(500), Num(280)}
      [] k = "sleep" -> {Absent, Num(0), Num(245), Num(95)}
      [] k = "alcohol" -> {Absent, Bool(TRUE), Bool(FALSE), Str("sometimes"), Str("yes")}
      [] OTHER -> {Absent, Str("x")}

\* The AnswerSets that differ from one of S in at most n keys.
RECURSIVE Near(_, _)
Near(S, n) ==
    IF n = 0 THEN S
    ELSE Near(S \cup UNION {UNION {{[a EXCEPT ![k] = v] : v \in FieldValues(k)}
                                   : k \in Keys} : a \in S},
              n - 1)

AnswerSets == Near({LowRiskProfile, HighRiskProfile}, MaxOverrides)

\* Missing-field lists of every length, in the order of findMissingFields.
MissingLists == {<<>>, <<"diet">>, <<"age", "smoker">>, <<"exercise", "diet">>,
                 <<"age", "smoker", "diet">>, <<"age", "smoker", "exercise", "diet">>}

\* Confidences, in hundredths, on both sides of the 0.3 threshold.
Confidences == {0, 29, 30, 100}

NoParsedData == [answers |-> LowRiskProfile, missing_fields |-> <<>>, confidence |-> 0]
NoValidation == [isValid |-> FALSE, response |-> NoResponse]
NoFactorData == [threw |-> FALSE, factors |-> <<>>, confidence |-> 0]
NoRiskData == [risk_level |-> "", score |-> [nan |-> FALSE, v |-> 0], rationale |-> <<>>]
NoRecommendations == [threw |-> FALSE, risk_level |-> "", factors |-> <<>>,
                      recommendations |-> <<>>, source |-> ""]
NotSent == [http |-> 0, body |-> [status |-> ""]]
NoRequest == [hasFile |-> FALSE, hasText |-> FALSE, hasData |-> FALSE,
              text |-> <<>>, written |-> <<>>, ocrOutcome |-> "", ocrConfidence |-> 0,
              hasKey |-> FALSE,
              aiOutcome |-> "", aiText |-> <<>>]

----------------------------------------------------------------------------
(* validateInput applied to every input of the model *)

InitValidate ==
    /\ pc = "validate"
    /\ parsedData \in [answers : AnswerSets, missing_fields : MissingLists,
                       confidence : Confidences]
    /\ req = NoRequest
    /\ validation = NoValidation
    /\ factorData = NoFactorData
    /\ riskData = NoRiskData
    /\ recommendations = NoRecommendations
    /\ response = NotSent
    /\ calls = <<>>

ValidateInput ==
    /\ pc = "validate"
    /\ validation' = validateInput(parsedData)
    /\ pc' = "validated"
    /\ calls' = Append(calls, "validateInput")
    /\ UNCHANGED <<req, parsedData, factorData, riskData, recommendations, response>>

SpecValidate == InitValidate /\ [][ValidateInput]_vars

\* The schema constraints on the fields that are present: age an integer in
\* [1,120], smoker a boolean, exercise one of the five levels, diet a non-empty
\* string, bmi a number in [10,50], sleep a number in [0,24], alcohol a boolean
\* or one of its five levels; no key outside the seven.
MeetsConstraints(a) ==
    /\ Has(a, "age") =>
          a["age"].t = "number" /\ a["age"].n % 10 = 0 /\ a["age"].n \in 10..1200
    /\ Has(a, "smoker") => a["smoker"].t = "boolean"
    /\ Has(a, "exercise") =>
          a["exercise"].t = "string" /\ a["exercise"].s \in ExerciseLevels
    /\ Has(a, "diet") => a["diet"].t = "string" /\ a["diet"].s # ""
    /\ Has(a, "bmi") => a["bmi"].t = "number" /\ a["bmi"].n \in 100..500
    /\ Has(a, "sleep") => a["sleep"].t = "number" /\ a["sleep"].n \in 0..240
    /\ Has(a, "alcohol") =>
          \/ a["alcohol"].t = "boolean"
          \/ a["alcohol"].t = "string" /\ a["alcohol"].s \in AlcoholLevels
    /\ ~Has(a, "extra")

\* C1: an input that lists more than 2 of the 4 required fields as missing is
\* rejected with status incomplete_profile, whatever its confidence and the
\* values of its fields.
C1_IncompleteProfile ==
    (pc = "validated" /\ Len(parsedData.missing_fields) > 2)
        => (~validation.isValid /\ validation.response.status = "incomplete_profile")

\* C1's case: three fields listed as missing, with a confidence and fields that
\* would pass the two later gates.
C1_Witness ==
    /\ pc = "validated"
    /\ Len(parsedData.missing_fields) = 3
    /\ parsedData.confidence = 100
    /\ MeetsConstraints(parsedData.answers)
    /\ validation.response.status = "incomplete_profile"

\* C2: an AnswerSet with no missing required field, a confidence of at least
\* 0.3 and every field within its schema constraint is accepted: isValid is
\* true and there is no rejection payload.
C2_Accepts ==
    (/\ pc = "validated"
     /\ parsedData.missing_fields = <<>>
     /\ parsedData.confidence >= 30
     /\ MeetsConstraints(parsedData.answers))
        => (validation.isValid /\ validation.response = NoResponse)

\* C2's case: an accepted AnswerSet on the threshold of the confidence gate and
\* on both bounds of the bmi range.
C2_Witness ==
    /\ pc = "validated"
    /\ parsedData.missing_fields = <<>>
    /\ parsedData.confidence = 30
    /\ parsedData.answers["bmi"] \in {Num(100), Num(500)}
    /\ parsedData.answers["age"] = Num(1200)
    /\ MeetsConstraints(parsedData.answers)
    /\ validation.isValid

\* C7 as stated: an AnswerSet whose age is 150 is rejected with status
\* invalid_data and field age, whatever the missing-field list and the
\* confidence are.
C7_Age150AlwaysInvalidData ==
    (pc = "validated" /\ parsedData.answers["age"] = Num(1500))
        => (/\ ~validation.isValid
            /\ validation.response.status = "invalid_data"
            /\ validation.response.field = "age")

\* C7 amended: an AnswerSet whose age is 150 that passes the completeness gate
\* (at most 2 fields listed as missing) and the confidence gate (confidence at
\* least 0.3) is rejected with status invalid_data and field age, whatever its
\* other fields are.
C7_Age150InvalidDataAfterGates ==
    (/\ pc = "validated"
     /\ parsedData.answers["age"] = Num(1500)
     /\ Len(parsedData.missing_fields) <= 2
     /\ parsedData.confidence >= 30)
        => (/\ ~validation.isValid
            /\ validation.response.status = "invalid_data"
            /\ validation.response.field = "age")

\* C7's case: README.md's edge case, age 150 together with a smoker value that
\* is invalid too, reported for its age.
C7_Witness ==
    /\ pc = "validated"
    /\ parsedData.answers["age"] = Num(1500)
    /\ parsedData.answers["smoker"] = Str("maybe")
    /\ Len(parsedData.missing_fields) = 2
    /\ parsedData.confidence >= 30
    /\ validation.response.status = "invalid_data"
    /\ validation.response.field = "age"

----------------------------------------------------------------------------
(* calculateRisk applied to every factor list and age of the model *)

\* The longest factor list given to calculateRisk and to the static strategy.
MaxFactors == 3

\* A tag outside the vocabulary that no object inherits.
UnknownTag == "dehydration"

Tags == FactorTags \cup {UnknownTag} \cup InheritedNames

RECURSIVE SeqsUpTo(_, _)
SeqsUpTo(S, n) ==
    IF n = 0 THEN {<<>>}
    ELSE LET shorter == SeqsUpTo(S, n - 1) IN
         shorter \cup {Append(q, x) : q \in shorter, x \in S}

FactorLists == SeqsUpTo(Tags, MaxFactors)

\* Ages (in tenths) below, on and above the thresholds 50 and 65, one with a
\* fraction, the largest the schema admits, and no age.
AgeValues == {Absent, Num(350), Num(500), Num(549), Num(550), Num(655), Num(680), Num(1200)}

Recognised(factors) == \A i \in 1..Len(factors) : factors[i] \in FactorTags

InitRisk ==
    /\ pc = "risk"
    /\ \E age \in AgeValues :
          parsedData = [NoParsedData EXCEPT !.answers = [LowRiskProfile EXCEPT !["age"] = age]]
    /\ \E factors \in FactorLists :
          factorData = [NoFactorData EXCEPT !.factors = factors]
    /\ req = NoRequest
    /\ validation = NoValidation
    /\ riskData = NoRiskData
    /\ recommendations = NoRecommendations
    /\ response = NotSent
    /\ calls = <<>>

CalculateRisk ==
    /\ pc = "risk"
    /\ riskData' = calculateRisk(factorData.factors, parsedData.answers)
    /\ pc' = "scored"
    /\ calls' = Append(calls, "calculateRisk")
    /\ UNCHANGED <<req, parsedData, validation, factorData, recommendations, response>>

\* calculateRisk again, for the same AnswerSet, with one more tag on the list.
AddFactor ==
    /\ pc = "scored"
    /\ Len(factorData.factors) < MaxFactors
    /\ \E t \in Tags :
          /\ factorData' = [factorData EXCEPT !.factors = Append(@, t)]
          /\ riskData' = calculateRisk(Append(factorData.factors, t), parsedData.answers)
    /\ UNCHANGED <<pc, req, parsedData, validation, recommendations, response, calls>>

SpecRisk == InitRisk /\ [][CalculateRisk \/ AddFactor]_vars

ScoreGe(a, b) == ~a.nan /\ ~b.nan /\ a.v >= b.v

\* C6: for a fixed AnswerSet, one more tag on the factor list, recognised or
\* not, never lowers the score.
C6_Monotone ==
    [][(pc = "scored" /\ pc' = "scored") => ScoreGe(riskData'.score, riskData.score)]_vars

\* C6 for the tags that are in the table or that no object inherits.
C6_MonotoneOwnTags ==
    [][(/\ pc = "scored" /\ pc' = "scored"
        /\ \A i \in 1..Len(factorData'.factors) : factorData'.factors[i] \notin InheritedNames)
          => ScoreGe(riskData'.score, riskData.score)]_vars

----------------------------------------------------------------------------
(* generateRecommendations applied to every input of the model *)

\* The most lines of an AI response.
MaxAILines == 6

\* The lines of an AI response: empty, white space only, a numbered item, and
\* an item without a number that ends in white space.
AILines == {<<>>, <<" ">>, <<"1", ".", " ", "a">>, <<"a", " ">>}

\* The texts of at most n lines; a text has at least one line, the empty text
\* being one empty line.
AITexts(n) == SeqsUpTo(AILines, n) \ {<<>>}

\* The tags in the order the Factor Extractor detects them.
DetectionOrder == <<"advanced age", "smoking", "low exercise", "poor diet",
                    "high fat intake", "obesity", "overweight", "underweight",
                    "poor sleep", "alcohol consumption">>

\* The sublist of DetectionOrder at the positions in P.
RECURSIVE Pick(_, _)
Pick(P, i) ==
    IF i > Len(DetectionOrder) THEN <<>>
    ELSE (IF i \in P THEN <<DetectionOrder[i]>> ELSE <<>>) \o Pick(P, i + 1)

OrderedLists == {Pick(P, 1) : P \in SUBSET (1..Len(DetectionOrder))}

RiskLevels == {"low", "medium", "high"}

\* Every level with every factor list, the credential missing or the AI call
\* failing; and every AI text, with a few levels and factor lists.
InitRecommend ==
    /\ pc = "recommend"
    /\ \/ /\ \E level \in RiskLevels : riskData = [NoRiskData EXCEPT !.risk_level = level]
          /\ \E factors \in FactorLists \cup OrderedLists :
                factorData = [NoFactorData EXCEPT !.factors = factors]
          /\ req \in {[NoRequest EXCEPT !.hasKey = FALSE],
                      [NoRequest EXCEPT !.hasKey = TRUE, !.aiOutcome = "throws"],
                      [NoRequest EXCEPT !.hasKey = TRUE, !.aiOutcome = "undefined"]}
       \/ /\ \E level \in RiskLevels : riskData = [NoRiskData EXCEPT !.risk_level = level]
          /\ \E factors \in {<<>>, <<"smoking", "obesity">>} :
                factorData = [NoFactorData EXCEPT !.factors = factors]
          /\ \E text \in AITexts(MaxAILines) :
                req = [NoRequest EXCEPT !.hasKey = TRUE, !.aiOutcome = "text", !.aiText = text]
    /\ parsedData = NoParsedData
    /\ validation = NoValidation
    /\ recommendations = NoRecommendations
    /\ response = NotSent
    /\ calls = <<>>

GenerateRecommendations ==
    /\ pc = "recommend"
    /\ recommendations' = generateRecommendations(riskData.risk_level, factorData.factors,
                                                  req.hasKey, req.aiOutcome, req.aiText)
    /\ pc' = "recommended"
    /\ calls' = Append(calls, "generateRecommendations")
    /\ UNCHANGED <<req, parsedData, validation, factorData, riskData, response>>

SpecRecommend == InitRecommend /\ [][GenerateRecommendations]_vars

\* C3: the list the static strategy returns has between 3 and 5 items, for
\* every risk level and every list of factor tags.
C3_StaticLength ==
    (/\ pc = "recommended"
     /\ ~recommendations.threw
     /\ recommendations.source = "static")
        => Len(recommendations.recommendations) \in 3..5

\* C4: every result of generateRecommendations, of the AI strategy or of the
\* static one, has at least 1 and at most 5 items.
C4_Length ==
    (pc = "recommended" /\ ~recommendations.threw)
        => Len(recommendations.recommendations) \in 1..5

----------------------------------------------------------------------------
(* ocr.js: what processHealthProfile computes from the parsed answers *)

\* requiredFields.filter(field => !(field in answers) || answers[field] === undefined
\*                                || answers[field] === '')
RECURSIVE MissingFrom(_, _)
MissingFrom(answers, i) ==
    IF i > Len(RequiredFields) THEN <<>>
    ELSE (IF ~Has(answers, RequiredFields[i]) \/ answers[RequiredFields[i]] = Str("")
          THEN <<RequiredFields[i]>> ELSE <<>>)
         \o MissingFrom(answers, i + 1)

findMissingFields(answers) == MissingFrom(answers, 1)

\* A mutant of calculateConfidence: nothing is added for the extracted keys.
calculateConfidence_NoKeyBonus(answers, missingFields, type) ==
    LET confidence == 50 - Len(missingFields) * 15 + (IF type = "text" THEN 20 ELSE 0)
    IN  IF confidence < 0 THEN 0 ELSE IF confidence > 100 THEN 100 ELSE confidence

\* 0.5 + 0.5 per key - 0.15 per missing field + 0.2 for text, clamped to [0,1];
\* in hundredths, which is what parseFloat(confidence.toFixed(2)) keeps.
calculateConfidence(answers, missingFields, type) ==
    LET confidence == 50 + KeyCount(answers) * 50 - Len(missingFields) * 15
                         + (IF type = "text" THEN 20 ELSE 0)
    IN  IF confidence < 0 THEN 0 ELSE IF confidence > 100 THEN 100 ELSE confidence

\* processHealthProfile, once the text is at hand and parsed to answers.
processHealthProfile(answers, type) ==
    LET missingFields == findMissingFields(answers) IN
    [answers |-> answers,
     missing_fields |-> missingFields,
     confidence |-> calculateConfidence(answers, missingFields, type)]

----------------------------------------------------------------------------
(* routes.js: the /analyze handler, one request *)

\* The most AnswerSet keys of a request that differ from a reference profile,
\* and the most lines of the AI response to a request.
MaxRequestOverrides == 1
MaxRequestAILines == 2

\* An AnswerSet with its age alone, out of range.
SparseProfile == [k \in Keys |-> IF k = "age" THEN Num(1500) ELSE Absent]

\* An AnswerSet with two of its four required fields.
HalfProfile ==
    [k \in Keys |-> CASE k = "exercise" -> Str("daily")
                      [] k = "diet" -> Str("balanced")
                      [] OTHER -> Absent]

RequestAnswerSets ==
    Near({LowRiskProfile, HighRiskProfile, SparseProfile, HalfProfile},
         MaxRequestOverrides)

\* How the AI call can end: with a text, with a response whose text is
\* undefined, by raising, or never.
AIOutcomes == {"text", "undefined", "throws", "hangs"}

ErrorResponse(http, message) == [http |-> http, body |-> [status |-> "error", message |-> message]]

Init ==
    /\ pc = "start"
    /\ req \in {[NoRequest EXCEPT !.hasFile = f, !.hasText = t, !.hasData = d]
                    : f, t, d \in BOOLEAN}
    /\ parsedData = NoParsedData
    /\ validation = NoValidation
    /\ factorData = NoFactorData
    /\ riskData = NoRiskData
    /\ recommendations = NoRecommendations
    /\ response = NotSent
    /\ calls = <<>>

\* Step 1: an uploaded file is read by OCR, a text or structured record is
\* parsed as text, and a request with neither is answered at once.
Receive ==
    /\ pc = "start"
    /\ IF req.hasFile
       THEN /\ pc' = "ocr"
            /\ calls' = Append(calls, "processHealthProfile")
            /\ UNCHANGED response
       ELSE IF req.hasText \/ req.hasData
       THEN /\ pc' = "parsing"
            /\ calls' = Append(calls, "processHealthProfile")
            /\ UNCHANGED response
       ELSE /\ pc' = "responded"
            /\ response' = ErrorResponse(400, "Please provide either text data or an image file")
            /\ UNCHANGED calls
    /\ UNCHANGED <<req, parsedData, validation, factorData, riskData, recommendations>>

\* How Tesseract.recognize can end: with a text, or by raising.
OcrOutcomes == {"text", "throws"}

\* result.data.confidence of a recognition, in hundredths: a poor one and a
\* good one.
OcrConfidences == {10, 95}

\* A mutant of OcrSettles: a failure of the OCR is taken as an empty text, and
\* the request goes on.
OcrSettles_EmptyText ==
    /\ pc = "ocr"
    /\ \E outcome \in OcrOutcomes, c \in OcrConfidences :
          req' = [req EXCEPT !.ocrOutcome = outcome,
                             !.ocrConfidence = IF outcome = "text" THEN c ELSE 0]
    /\ pc' = "parsing"
    /\ UNCHANGED <<parsedData, validation, factorData, riskData, recommendations,
                   response, calls>>

\* await Tesseract.recognize: it gives a text with the engine's confidence,
\* which processHealthProfile logs and does not keep; or it raises and the
\* handler's catch answers 500.
OcrSettles ==
    /\ pc = "ocr"
    /\ \E outcome \in OcrOutcomes, c \in OcrConfidences :
          /\ req' = [req EXCEPT !.ocrOutcome = outcome,
                                !.ocrConfidence = IF outcome = "text" THEN c ELSE 0]
          /\ IF outcome = "text" THEN pc' = "parsing" /\ UNCHANGED response
             ELSE pc' = "responded" /\ response' = ErrorResponse(500, "ocr failed")
    /\ UNCHANGED <<parsedData, validation, factorData, riskData, recommendations, calls>>

\* The rest of processHealthProfile, for the answers the text holds.
Parse ==
    /\ pc = "parsing"
    /\ \E answers \in RequestAnswerSets :
          parsedData' = processHealthProfile(answers, IF req.hasFile THEN "image" ELSE "text")
    /\ pc' = "validating"
    /\ UNCHANGED <<req, validation, factorData, riskData, recommendations, response, calls>>

\* Step 2: a rejection is sent as it is, with status 400.
Validate ==
    /\ pc = "validating"
    /\ validation' = validateInput(parsedData)
    /\ calls' = Append(calls, "validateInput")
    /\ IF validation'.isValid
       THEN pc' = "extracting" /\ UNCHANGED response
       ELSE pc' = "responded" /\ response' = [http |-> 400, body |-> validation'.response]
    /\ UNCHANGED <<req, parsedData, factorData, riskData, recommendations>>

\* Step 3: what extractFactors raises is caught by the handler and answered 500.
ExtractFactors ==
    /\ pc = "extracting"
    /\ factorData' = extractFactors(parsedData.answers)
    /\ calls' = Append(calls, "extractFactors")
    /\ IF factorData'.threw
       THEN pc' = "responded" /\ response' = ErrorResponse(500, "TypeError")
       ELSE pc' = "scoring" /\ UNCHANGED response
    /\ UNCHANGED <<req, parsedData, validation, riskData, recommendations>>

\* Step 4.
Score ==
    /\ pc = "scoring"
    /\ riskData' = calculateRisk(factorData.factors, parsedData.answers)
    /\ calls' = Append(calls, "calculateRisk")
    /\ pc' = "recommending"
    /\ UNCHANGED <<req, parsedData, validation, factorData, recommendations, response>>

\* Step 5: generateRecommendations up to its await.  Without the credential
\* it returns the static strategy's result; with it, it calls the AI
\* collaborator, whose outcome is the collaborator's choice.
Recommend ==
    /\ pc = "recommending"
    /\ \E hasKey \in BOOLEAN :
          IF hasKey
          THEN /\ \E outcome \in AIOutcomes :
                    \E text \in IF outcome = "text" THEN AITexts(MaxRequestAILines)
                                ELSE {<<>>} :
                       req' = [req EXCEPT !.hasKey = TRUE, !.aiOutcome = outcome,
                                          !.aiText = text]
               /\ calls' = calls \o <<"generateRecommendations", "ai.generateContent">>
               /\ pc' = "awaiting_ai"
               /\ UNCHANGED recommendations
          ELSE /\ req' = [req EXCEPT !.hasKey = FALSE]
               /\ calls' = Append(calls, "generateRecommendations")
               /\ recommendations' = generateRecommendations(
                      riskData.risk_level, factorData.factors, FALSE, "", <<>>)
               /\ pc' = "combining"
    /\ UNCHANGED <<parsedData, validation, factorData, riskData, response>>

\* The AI call settles, and generateRecommendations returns.  A call that
\* never settles leaves the handler at its await: nothing else resumes it.
AiSettles ==
    /\ pc = "awaiting_ai"
    /\ req.aiOutcome # "hangs"
    /\ recommendations' = generateRecommendations(
           riskData.risk_level, factorData.factors, TRUE, req.aiOutcome, req.aiText)
    /\ pc' = "combining"
    /\ UNCHANGED <<req, parsedData, validation, factorData, riskData, response, calls>>

\* { ...parsedData, ...factorData, ...riskData, ...recommendations, status: 'ok' }:
\* a later spread overwrites the keys of an earlier one.
Combine(pd, fd, rd, rec) ==
    [answers |-> pd.answers,
     missing_fields |-> pd.missing_fields,
     confidence |-> fd.confidence,
     factors |-> rec.factors,
     risk_level |-> rec.risk_level,
     score |-> rd.score,
     rationale |-> rd.rationale,
     recommendations |-> rec.recommendations,
     source |-> rec.source,
     status |-> "ok"]

\* The result is sent; what generateRecommendations raised is answered 500.
Respond ==
    /\ pc = "combining"
    /\ response' = IF recommendations.threw THEN ErrorResponse(500, "TypeError")
                   ELSE [http |-> 200,
                         body |-> Combine(parsedData, factorData, riskData, recommendations)]
    /\ pc' = "responded"
    /\ UNCHANGED <<req, parsedData, validation, factorData, riskData, recommendations, calls>>

Next ==
    \/ Receive \/ OcrSettles \/ Parse \/ Validate \/ ExtractFactors
    \/ Score \/ Recommend \/ AiSettles \/ Respond

Spec == Init /\ [][Next]_vars

\* The handler runs whenever it can; nothing is assumed of the collaborators
\* beyond their outcome.
LiveSpec == Spec /\ WF_vars(Next)

\* The stages invoked after validateInput, the AI call left out.
RECURSIVE Without(_, _)
Without(q, x) ==
    IF q = <<>> THEN <<>>
    ELSE (IF Head(q) = x THEN <<>> ELSE <<Head(q)>>) \o Without(Tail(q), x)

StagesAfterValidation == Without(SubSeq(calls, 3, Len(calls)), "ai.generateContent")

Count(q, x) == Cardinality({i \in 1..Len(q) : q[i] = x})

\* C8: when validateInput rejects, the response body is the rejection object
\* and no later stage, nor the AI call, is invoked; when it accepts, factor
\* extraction, risk scoring and recommendation generation run once each, in
\* that order.
C8_ShortCircuit ==
    (pc = "responded" /\ Count(calls, "validateInput") = 1)
        => IF ~validation.isValid
           THEN /\ response.body = validation.response
                /\ calls = <<"processHealthProfile", "validateInput">>
           ELSE /\ StagesAfterValidation
                     = <<"extractFactors", "calculateRisk", "generateRecommendations">>
                /\ Count(calls, "ai.generateContent") <= 1

\* C8 for the requests whose factor extraction does not raise.
C8_ShortCircuitUnlessRaised ==
    (pc = "responded" /\ Count(calls, "validateInput") = 1 /\ ~factorData.threw)
        => IF ~validation.isValid
           THEN /\ response.body = validation.response
                /\ calls = <<"processHealthProfile", "validateInput">>
           ELSE /\ StagesAfterValidation
                     = <<"extractFactors", "calculateRisk", "generateRecommendations">>
                /\ Count(calls, "ai.generateContent") <= 1

\* The recommendation step ran without the credential, or its AI call failed.
AIUnavailable ==
    /\ pc \in {"combining", "responded"}
    /\ Count(calls, "generateRecommendations") = 1
    /\ ~req.hasKey \/ req.aiOutcome \in {"throws", "undefined"}

\* C9: when the credential is missing or the one AI call fails, the request
\* completes with status ok, its recommendation list is the static strategy's
\* for the same risk level and factor tags, tagged 'static'; the AI
\* collaborator is called at most once, and not at all without the credential.
C9_StaticFallback ==
    /\ Count(calls, "ai.generateContent") <= 1
    /\ Count(calls, "ai.generateContent") = 1 => req.hasKey
    /\ AIUnavailable =>
          /\ ~recommendations.threw
          /\ recommendations.source = "static"
          /\ recommendations.recommendations
                = generateStaticRecommendations(riskData.risk_level,
                                                factorData.factors).recommendations
          /\ pc = "responded" =>
                /\ response.http = 200
                /\ response.body.status = "ok"
                /\ response.body.source = "static"
                /\ response.body.recommendations = recommendations.recommendations

\* C9's case: the AI call was made once and raised, and the response is ok with
\* the static list.
C9_Witness ==
    /\ pc = "responded"
    /\ req.hasKey
    /\ req.aiOutcome = "throws"
    /\ Count(calls, "ai.generateContent") = 1
    /\ response.http = 200
    /\ response.body.status = "ok"
    /\ response.body.source = "static"
    /\ Len(response.body.recommendations) = 5

\* C10: a request whose AI call is slow or never returns is answered all the
\* same: the handler does not stay at its await.
C10_NoHang == (pc = "awaiting_ai") ~> (pc = "responded")

----------------------------------------------------------------------------
(* The success response of /analyze *)

\* The confidence values a response body holds: the object has one key
\* 'confidence'.
ConfidencesIn(body) == {body.confidence}

\* C11: every success response holds both the extraction-stage confidence
\* (processHealthProfile's, the one validateInput saw) and the factor-stage
\* confidence (extractFactors's); neither overwrites the other.
C11_BothConfidences ==
    (pc = "responded" /\ response.http = 200)
        => {parsedData.confidence, factorData.confidence}
              \subseteq ConfidencesIn(response.body)

----------------------------------------------------------------------------
(* The rejections of validateInput *)

\* The order in which schema.validate visits the keys of an AnswerSet.
ValidationOrder == SchemaKeys \o <<"extra">>

\* The keys of an AnswerSet whose value violates the schema.
Violations(answers) ==
    {i \in 1..Len(ValidationOrder) :
        /\ Has(answers, ValidationOrder[i])
        /\ FieldError(ValidationOrder[i], answers[ValidationOrder[i]]) # ""}

\* C12: every rejection of validateInput has one of the three statuses and a
\* reason; incomplete_profile carries the missing-field list and the
\* confidence, low_confidence carries the confidence, and invalid_data names
\* one field, the first in validation order that violates the schema, with
\* that field's error as its reason.
C12_RejectionShape ==
    (pc = "validated" /\ ~validation.isValid) =>
        LET r == validation.response IN
        /\ r.status \in {"incomplete_profile", "low_confidence", "invalid_data"}
        /\ {"status", "reason"} \subseteq r.keys
        /\ r.reason # ""
        /\ r.status = "incomplete_profile" =>
              /\ {"missing_fields", "confidence"} \subseteq r.keys
              /\ r.missing_fields = parsedData.missing_fields
              /\ r.confidence = parsedData.confidence
        /\ r.status = "low_confidence" =>
              /\ "confidence" \in r.keys
              /\ r.confidence = parsedData.confidence
        /\ r.status = "invalid_data" =>
              /\ "field" \in r.keys
              /\ \E i \in Violations(parsedData.answers) :
                    /\ \A j \in Violations(parsedData.answers) : i <= j
                    /\ r.field = ValidationOrder[i]
                    /\ r.reason = FieldError(r.field, parsedData.answers[r.field])

\* C12's case: an AnswerSet with two violations is rejected with the first.
C12_Witness ==
    /\ pc = "validated"
    /\ ~validation.isValid
    /\ validation.response.status = "invalid_data"
    /\ Cardinality(Violations(parsedData.answers)) = 2
    /\ validation.response.field = "smoker"
    /\ validation.response.reason = "boolean.base"

----------------------------------------------------------------------------
(* The source tag of a recommendation result *)

\* The result's list came from the AI collaborator: the credential is set and
\* the call gave a text.
FromAI == req.hasKey /\ req.aiOutcome = "text"

----------------------------------------------------------------------------
(* extractFactors, then calculateRisk, applied to AnswerSets within the schema *)

\* The AnswerSet of the README's example request.
ExampleProfile ==
    [k \in Keys |->
        CASE k = "age" -> Num(420)
          [] k = "smoker" -> Bool(TRUE)
          [] k = "exercise" -> Str("rarely")
          [] k = "diet" -> Str("high sugar and processed foods")
          [] k = "bmi" -> Num(285)
          [] k = "sleep" -> Num(50)
          [] k = "alcohol" -> Str("often")
          [] OTHER -> Absent]

\* The values of each key within its schema constraint: absent, on each side
\* of every threshold of a factor rule, on the threshold, and on the bounds of
\* the key's range.
SchemaValues(k) ==
    CASE k = "age" -> {Absent, Num(420), Num(640), Num(650)}
      [] k = "smoker" -> {Absent, Bool(TRUE), Bool(FALSE)}
      [] k = "exercise" -> {Absent, Str("rarely"), Str("sometimes")}
      [] k = "diet" -> {Absent, Str("balanced"), Str("fried"),
                        Str("high sugar and processed foods"),
                        Str("high sugar processed foods and fried meals")}
      [] k = "bmi" -> {Absent, Num(100), Num(185), Num(250), Num(285), Num(300)}
      [] k = "sleep" -> {Absent, Num(0), Num(50), Num(60), Num(90), Num(95)}
      [] k = "alcohol" -> {Absent, Bool(TRUE), Str("often"), Str("never")}
      [] OTHER -> {Absent}

SchemaAnswerSets ==
    {[k \in Keys |->
        CASE k = "age" -> age
          [] k = "smoker" -> smoker
          [] k = "exercise" -> exercise
          [] k = "diet" -> diet
          [] k = "bmi" -> bmi
          [] k = "sleep" -> sleep
          [] k = "alcohol" -> alcohol
          [] OTHER -> Absent] :
        age \in SchemaValues("age"), smoker \in SchemaValues("smoker"),
        exercise \in SchemaValues("exercise"), diet \in SchemaValues("diet"),
        bmi \in SchemaValues("bmi"), sleep \in SchemaValues("sleep"),
        alcohol \in SchemaValues("alcohol")}

InitAnalysis ==
    /\ pc = "extract"
    /\ \E a \in SchemaAnswerSets :
          parsedData = [answers |-> a, missing_fields |-> findMissingFields(a),
                        confidence |-> 100]
    /\ req = NoRequest
    /\ validation = NoValidation
    /\ factorData = NoFactorData
    /\ riskData = NoRiskData
    /\ recommendations = NoRecommendations
    /\ response = NotSent
    /\ calls = <<>>

ExtractOnly ==
    /\ pc = "extract"
    /\ factorData' = extractFactors(parsedData.answers)
    /\ pc' = "extracted"
    /\ calls' = Append(calls, "extractFactors")
    /\ UNCHANGED <<req, parsedData, validation, riskData, recommendations, response>>

\* calculateRisk on the factors extracted, when extractFactors returned.
ScoreExtracted ==
    /\ pc = "extracted"
    /\ ~factorData.threw
    /\ riskData' = calculateRisk(factorData.factors, parsedData.answers)
    /\ pc' = "analysed"
    /\ calls' = Append(calls, "calculateRisk")
    /\ UNCHANGED <<req, parsedData, validation, factorData, recommendations, response>>

SpecAnalysis == InitAnalysis /\ [][ExtractOnly \/ ScoreExtracted]_vars

----------------------------------------------------------------------------
(* The AnswerSets that reach factor extraction *)

\* The required fields an AnswerSet contains.
RequiredPresent(answers) ==
    {i \in 1..Len(RequiredFields) : Has(answers, RequiredFields[i])}

----------------------------------------------------------------------------
(* The inputs of a request *)

\* How many of an image, a text and a structured record the request supplies.
Supplied ==
    (IF req.hasFile THEN 1 ELSE 0) + (IF req.hasText THEN 1 ELSE 0)
        + (IF req.hasData THEN 1 ELSE 0)

\* C16: processHealthProfile is called only for a request that supplies
\* exactly one of a text, a structured record and an image; a request that
\* supplies none or more than one of them is answered with the input-shape
\* error, and processHealthProfile is never called for it.
C16_ExactlyOneInput ==
    /\ Count(calls, "processHealthProfile") >= 1 => Supplied = 1
    /\ (pc = "responded" /\ Supplied # 1) =>
          /\ response.http = 400
          /\ response.body.status = "error"
          /\ calls = <<>>

\* C16 for the request that supplies none of the three.
C16_NoInput ==
    Supplied = 0 =>
        /\ Count(calls, "processHealthProfile") = 0
        /\ pc = "responded" =>
              response = ErrorResponse(400, "Please provide either text data or an image file")

----------------------------------------------------------------------------
(* A failure of the OCR collaborator *)

\* C17: when Tesseract.recognize raises on an image request, the request
\* ends with an error response; parseHealthSurvey, validateInput,
\* extractFactors, calculateRisk and generateRecommendations do not run, and
\* no response with status ok is sent.
C17_OcrFailureFatal ==
    req.ocrOutcome = "throws" =>
        /\ pc = "responded"
        /\ response.http = 500
        /\ response.body.status = "error"
        /\ calls = <<"processHealthProfile">>
        /\ parsedData = NoParsedData
        /\ validation = NoValidation
        /\ factorData = NoFactorData
        /\ riskData = NoRiskData
        /\ recommendations = NoRecommendations

\* C17's case: an image request whose OCR raised has been answered.
C17_Witness ==
    /\ req.hasFile
    /\ req.ocrOutcome = "throws"
    /\ pc = "responded"
    /\ response.body.status = "error"

----------------------------------------------------------------------------
(* ocr.js: parseHealthSurvey *)

\* A text is the sequence of its tokens: words and numbers, which one blank
\* separates, the colon, the newline "\n", the braces and the comma, and
\* strings in double quotes.  No word of a text holds a detector's token or
\* the start of one of its values inside a longer word, and no text has
\* "diet" followed at once by a word that a colon follows.

\* A mutant of Lower: the detectors match with the case of the pattern only.
Lower_CaseSensitive(token) == token

\* The /i flag and toLowerCase(), on the capitalised words of the model.
Lower(token) ==
    CASE token = "Age" -> "age"
      [] token = "Smoker" -> "smoker"
      [] token = "Exercise" -> "exercise"
      [] token = "Diet" -> "diet"
      [] OTHER -> token

\* [:\s]
IsSeparator(token) == token \in {":", "\n"}

\* The numbers written in a text, in tenths: what parseInt and parseFloat read.
NumberTokens == {"42", "7"}
NumberValue(token) == IF token = "42" THEN 420 ELSE 70

\* [:\s]* from position i: the first position that holds no separator.
RECURSIVE SkipSeparators(_, _)
SkipSeparators(text, i) ==
    IF i <= Len(text) /\ IsSeparator(text[i]) THEN SkipSeparators(text, i + 1) ELSE i

\* text.match(/token[:\s]*(value)/i): the position of the value of the
\* leftmost match, 0 when there is none.  A token that no value follows is no
\* match, and the search goes on to its right.
ValueAt(text, tokens, values) ==
    LET M == {i \in 1..Len(text) :
                 /\ Lower(text[i]) \in tokens
                 /\ SkipSeparators(text, i + 1) <= Len(text)
                 /\ Lower(text[SkipSeparators(text, i + 1)]) \in values}
    IN  IF M = {} THEN 0
        ELSE SkipSeparators(text, (CHOOSE i \in M : \A j \in M : i <= j) + 1)

\* The strings in double quotes of the model, and what they quote.
QuotedStrings == {"\"age\"", "\"smoker\"", "\"note\""}
Unquote(token) ==
    CASE token = "\"age\"" -> "age"
      [] token = "\"smoker\"" -> "smoker"
      [] OTHER -> "note"

\* \w+: a word or a number, and no punctuation.
IsWord(token) == token \notin {":", "\n", "{", "}", ","} \cup QuotedStrings

\* The words and numbers of a text.
WordsOf(text) == {Lower(text[i]) : i \in {j \in 1..Len(text) : IsWord(text[j])}}

\* ([\w\s]+?)(?:\n|$|[A-Z][a-z]+:) from position j: the run ends before the
\* first newline, at the end of the text, or before a word that a colon follows.
RECURSIVE DietRun(_, _)
DietRun(text, j) ==
    IF j > Len(text) \/ ~IsWord(text[j]) THEN <<>>
    ELSE IF j + 1 <= Len(text) /\ text[j + 1] = ":" THEN <<>>
    ELSE <<text[j]>> \o DietRun(text, j + 1)

\* The run from position j meets one of its three ends, and not a colon or
\* other punctuation, at which the pattern does not match.
RECURSIVE DietEnds(_, _)
DietEnds(text, j) ==
    IF j > Len(text) THEN TRUE
    ELSE IF text[j] = "\n" THEN TRUE
    ELSE IF ~IsWord(text[j]) THEN FALSE
    ELSE IF j + 1 <= Len(text) /\ text[j + 1] = ":" THEN TRUE
    ELSE DietEnds(text, j + 1)

\* text.match of the diet pattern: the position of the first word of the
\* leftmost match, 0 when there is none.
DietAt(text) ==
    LET M == {i \in 1..Len(text) :
                 /\ Lower(text[i]) = "diet"
                 /\ SkipSeparators(text, i + 1) <= Len(text)
                 /\ IsWord(text[SkipSeparators(text, i + 1)])
                 /\ DietEnds(text, SkipSeparators(text, i + 1))}
    IN  IF M = {} THEN 0
        ELSE SkipSeparators(text, (CHOOSE i \in M : \A j \in M : i <= j) + 1)

\* ([\w\s]+) from position j, trimmed: the run goes on over newlines up to the
\* first colon or other punctuation, or the end of the text.
RECURSIVE FreeRun(_, _)
FreeRun(text, j) ==
    IF j > Len(text) \/ (text[j] # "\n" /\ ~IsWord(text[j])) THEN <<>>
    ELSE IF text[j] = "\n"
         THEN LET rest == FreeRun(text, j + 1) IN
              IF rest = <<>> THEN <<>> ELSE <<"\n">> \o rest
         ELSE <<Lower(text[j])>> \o FreeRun(text, j + 1)

\* The diet descriptions of the model, as words and as the string they make.
Phrases == {[words |-> <<"balanced">>, string |-> "balanced"],
            [words |-> <<"high", "sugar">>, string |-> "high sugar"],
            [words |-> <<"no", "alcohol", "no", "sugar">>, string |-> "no alcohol no sugar"],
            [words |-> <<"more", "exercise">>, string |-> "more exercise"]}

\* The string a run of words makes, one blank between two words.
Join(words) ==
    IF Len(words) = 1 THEN words[1]
    ELSE (CHOOSE p \in Phrases : p.words = words).string

\* The pattern extraction of parseHealthSurvey: one detector per field.
PatternExtraction(text) ==
    LET ageAt == ValueAt(text, {"age"}, NumberTokens)
        smokerAt == ValueAt(text, {"smoker", "smoking"}, {"yes", "no", "true", "false"})
        exerciseAt == ValueAt(text, {"exercise"}, WordsOf(text))
        dietAt == DietAt(text)
        bmiAt == ValueAt(text, {"bmi"}, NumberTokens)
        sleepAt == ValueAt(text, {"sleep"}, NumberTokens)
        alcoholAt == ValueAt(text, {"alcohol"}, {"yes", "no", "true", "false", "never",
                                                "rarely", "sometimes", "often"})
    IN  [k \in Keys |->
            CASE k = "age" ->
                    IF ageAt = 0 THEN Absent ELSE Num(NumberValue(text[ageAt]))
              [] k = "smoker" ->
                    IF smokerAt = 0 THEN Absent
                    ELSE Bool(Lower(text[smokerAt]) \in {"yes", "true"})
              [] k = "exercise" ->
                    IF exerciseAt = 0 THEN Absent
                    ELSE IF Lower(text[exerciseAt]) \in ExerciseLevels
                         THEN Str(Lower(text[exerciseAt]))
                         ELSE Str(Join(FreeRun(text, exerciseAt)))
              [] k = "diet" ->
                    IF dietAt = 0 THEN Absent ELSE Str(Join(DietRun(text, dietAt)))
              [] k = "bmi" ->
                    IF bmiAt = 0 THEN Absent ELSE Num(NumberValue(text[bmiAt]))
              [] k = "sleep" ->
                    IF sleepAt = 0 THEN Absent ELSE Num(NumberValue(text[sleepAt]))
              [] k = "alcohol" ->
                    IF alcoholAt = 0 THEN Absent
                    ELSE IF Lower(text[alcoholAt]) \in {"yes", "true", "often", "sometimes"}
                         THEN Str(Lower(text[alcoholAt]))
                         ELSE Str("no")
              [] OTHER -> Absent]

\* The JSON values of the model: a number, true or false, a string.
IsJsonValue(token) == token \in NumberTokens \cup {"true", "false"} \cup QuotedStrings

JsonValue(token) ==
    IF token \in NumberTokens THEN Num(NumberValue(token))
    ELSE IF token \in {"true", "false"} THEN Bool(token = "true")
    ELSE Str(Unquote(token))

\* The key of the AnswerSet that a member's name is; a name outside the
\* schema is the key "extra".
JsonKey(token) == IF Unquote(token) \in {"age", "smoker"} THEN Unquote(token) ELSE "extra"

\* The members of a JSON object from position i to the closing brace that ends
\* the text: name, colon, value, and a comma before each further member.
RECURSIVE IsMembers(_, _)
IsMembers(text, i) ==
    /\ i + 3 <= Len(text)
    /\ text[i] \in QuotedStrings
    /\ text[i + 1] = ":"
    /\ IsJsonValue(text[i + 2])
    /\ IF text[i + 3] = "}" THEN i + 3 = Len(text)
       ELSE text[i + 3] = "," /\ IsMembers(text, i + 4)

\* The text is a JSON object.
IsJsonObject(text) ==
    /\ Len(text) >= 2
    /\ text[1] = "{"
    /\ IF text[2] = "}" THEN Len(text) = 2 ELSE IsMembers(text, 2)

\* The object of a JSON text, from the member at position i on: a later member
\* of the same name replaces an earlier one.
RECURSIVE JsonMembers(_, _, _)
JsonMembers(text, i, object) ==
    IF i + 2 > Len(text) THEN object
    ELSE JsonMembers(text, i + 4,
                     [object EXCEPT ![JsonKey(text[i])] = JsonValue(text[i + 2])])

\* JSON.parse(text): the object, or a SyntaxError raised.
JSONparse(text) ==
    IF IsJsonObject(text)
    THEN [threw |-> FALSE, value |-> JsonMembers(text, 2, [k \in Keys |-> Absent])]
    ELSE [threw |-> TRUE, value |-> [k \in Keys |-> Absent]]

\* text.trim().startsWith('{')
StartsWithBrace(text) == Len(text) >= 1 /\ text[1] = "{"

\* A mutant of parseHealthSurvey: JSON.parse is called outside the try.
parseHealthSurvey_NoTry(text) ==
    IF StartsWithBrace(text)
    THEN [threw |-> JSONparse(text).threw, answers |-> JSONparse(text).value]
    ELSE [threw |-> FALSE, answers |-> PatternExtraction(text)]

\* parseHealthSurvey, as [threw, answers]: a text that begins with '{' and
\* parses as JSON is returned as parsed; what JSON.parse raises is caught, and
\* the patterns are applied to the text.
parseHealthSurvey(text) ==
    IF StartsWithBrace(text) /\ ~JSONparse(text).threw
    THEN [threw |-> FALSE, answers |-> JSONparse(text).value]
    ELSE [threw |-> FALSE, answers |-> PatternExtraction(text)]

----------------------------------------------------------------------------
(* parseHealthSurvey applied to the texts of four lines *)

\* What the four lines of a text say: the digits of the age, yes or no, an
\* exercise level and the words of the diet.
Written == [age : NumberTokens, smoker : {"yes", "no"}, exercise : ExerciseLevels,
            diet : {p.words : p \in Phrases}]

\* The line of a required field.
Line(written, field) ==
    CASE field = "age" -> <<"Age", ":", written.age>>
      [] field = "smoker" -> <<"Smoker", ":", written.smoker>>
      [] field = "exercise" -> <<"Exercise", ":", written.exercise>>
      [] OTHER -> <<"Diet", ":">> \o written.diet

\* The orders of the four lines.
LineOrders == {o \in [1..4 -> 1..4] : \A i, j \in 1..4 : o[i] = o[j] => i = j}

\* The four lines in the order o, joined by newlines.
FourLines(written, o) ==
    Line(written, RequiredFields[o[1]]) \o <<"\n">>
        \o Line(written, RequiredFields[o[2]]) \o <<"\n">>
        \o Line(written, RequiredFields[o[3]]) \o <<"\n">>
        \o Line(written, RequiredFields[o[4]])

InitParse ==
    /\ pc = "parse"
    /\ \E written \in Written, o \in LineOrders :
          req = [NoRequest EXCEPT !.hasText = TRUE, !.written = written,
                                  !.text = FourLines(written, o)]
    /\ parsedData = NoParsedData
    /\ validation = NoValidation
    /\ factorData = NoFactorData
    /\ riskData = NoRiskData
    /\ recommendations = NoRecommendations
    /\ response = NotSent
    /\ calls = <<>>

\* processHealthProfile for a text: what parseHealthSurvey raises leaves it.
ParseText ==
    /\ pc = "parse"
    /\ LET parsed == parseHealthSurvey(req.text) IN
       IF parsed.threw
       THEN pc' = "raised" /\ UNCHANGED parsedData
       ELSE /\ parsedData' = processHealthProfile(parsed.answers, "text")
            /\ pc' = "parsed"
    /\ calls' = Append(calls, "processHealthProfile")
    /\ UNCHANGED <<req, validation, factorData, riskData, recommendations, response>>

SpecParse == InitParse /\ [][ParseText]_vars

\* The AnswerSet with the four fields as the lines give them.
FourFields(written) ==
    [k \in Keys |->
        CASE k = "age" -> Num(NumberValue(written.age))
          [] k = "smoker" -> Bool(written.smoker = "yes")
          [] k = "exercise" -> Str(written.exercise)
          [] k = "diet" -> Str(Join(written.diet))
          [] OTHER -> Absent]

\* C18: for a text of the four lines 'Age: <digits>', 'Smoker: yes|no',
\* 'Exercise: <level>' and 'Diet: <words>' in any order, parseHealthSurvey
\* returns exactly the four fields as their lines give them, and no required
\* field is missing.
C18_FourLines ==
    pc = "parsed" =>
        /\ parsedData.answers = FourFields(req.written)
        /\ parsedData.missing_fields = <<>>

\* No word of the diet line is a detector's token.
PlainDiet(written) ==
    \A i \in 1..Len(written.diet) :
        written.diet[i] \notin {"age", "smoker", "smoking", "exercise", "diet",
                                "bmi", "sleep", "alcohol"}

\* C18 for the texts whose diet words hold no detector's token; the text
\* "Age: 42\nSmoker: yes\nExercise: rarely\nDiet: high sugar" is one of them.
C18_FourLinesPlainDiet ==
    (pc = "parsed" /\ PlainDiet(req.written)) =>
        /\ parsedData.answers = FourFields(req.written)
        /\ parsedData.missing_fields = <<>>

\* C18's case: the text of the spec, its lines in another order, parsed.
C18_Witness ==
    /\ pc = "parsed"
    /\ req.text = <<"Diet", ":", "high", "sugar", "\n", "Age", ":", "42", "\n",
                    "Exercise", ":", "rarely", "\n", "Smoker", ":", "yes">>
    /\ parsedData.answers["age"] = Num(420)
    /\ parsedData.answers["smoker"] = Bool(TRUE)
    /\ parsedData.answers["exercise"] = Str("rarely")
    /\ parsedData.answers["diet"] = Str("high sugar")
    /\ KeyCount(parsedData.answers) = 4

----------------------------------------------------------------------------
(* The order of the gates of validateInput *)

\* C19: validateInput returns the rejection of the first gate that fails, in
\* the order completeness, confidence, schema: more than 2 missing fields give
\* incomplete_profile whatever the confidence and the fields; otherwise a
\* confidence below 0.3 gives low_confidence whatever the fields; and
\* invalid_data is returned only when both earlier gates pass.
C19_GateOrder ==
    pc = "validated" =>
        LET missing == Len(parsedData.missing_fields)
            low == parsedData.confidence < 30
            invalid == Violations(parsedData.answers) # {}
            status == validation.response.status
        IN  /\ missing > 2 => (~validation.isValid /\ status = "incomplete_profile")
            /\ (missing <= 2 /\ low) => (~validation.isValid /\ status = "low_confidence")
            /\ (missing <= 2 /\ ~low /\ invalid)
                  => (~validation.isValid /\ status = "invalid_data")
            /\ (~validation.isValid /\ status = "invalid_data")
                  => (missing <= 2 /\ ~low /\ invalid)

\* C19's case: an input that fails the three gates is rejected by the first.
C19_Witness ==
    /\ pc = "validated"
    /\ Len(parsedData.missing_fields) = 3
    /\ parsedData.confidence = 29
    /\ Violations(parsedData.answers) # {}
    /\ ~validation.isValid
    /\ validation.response.status = "incomplete_profile"

----------------------------------------------------------------------------
(* The factor rules *)

\* The value of a numeric field that is present, in tenths.
Value(a, k) == a[k].n

\* The tags whose rule holds of an AnswerSet within the schema, in the fixed
\* order of the rules; the rule of an absent field does not hold.
RuleFactors(a) ==
    (IF Has(a, "age") /\ Value(a, "age") >= 650 THEN <<"advanced age">> ELSE <<>>)
    \o (IF a["smoker"] = Bool(TRUE) THEN <<"smoking">> ELSE <<>>)
    \o (IF Has(a, "exercise") /\ a["exercise"].s \in {"never", "rarely"}
        THEN <<"low exercise">> ELSE <<>>)
    \o (IF Has(a, "diet") /\ a["diet"].s \in PoorDietTexts
        THEN <<"poor diet">> ELSE <<>>)
    \o (IF Has(a, "diet") /\ a["diet"].s \in HighFatTexts
        THEN <<"high fat intake">> ELSE <<>>)
    \o (IF ~Has(a, "bmi") THEN <<>>
        ELSE IF Value(a, "bmi") >= 300 THEN <<"obesity">>
        ELSE IF Value(a, "bmi") >= 250 THEN <<"overweight">>
        ELSE IF Value(a, "bmi") < 185 THEN <<"underweight">>
        ELSE <<>>)
    \o (IF Has(a, "sleep") /\ (Value(a, "sleep") < 60 \/ Value(a, "sleep") > 90)
        THEN <<"poor sleep">> ELSE <<>>)
    \o (IF a["alcohol"].t = "string" /\ a["alcohol"].s \in {"often", "sometimes"}
        THEN <<"alcohol consumption">> ELSE <<>>)

\* C20: for every AnswerSet within the schema constraints, the boundary
\* values sleep 0, bmi 10, age 65, bmi 25 and bmi 30 included, extractFactors
\* returns exactly the tags whose rule holds, each once, in the fixed order;
\* sleep < 6 or sleep > 9 always yields 'poor sleep'.
C20_ExactlyTheRules ==
    (pc \in {"extracted", "analysed"} /\ MeetsConstraints(parsedData.answers)) =>
        /\ ~factorData.threw
        /\ factorData.factors = RuleFactors(parsedData.answers)

\* C20 for the AnswerSets whose sleep is not 0 and whose alcohol is not true.
C20_ExactlyTheRulesBut ==
    (/\ pc \in {"extracted", "analysed"}
     /\ MeetsConstraints(parsedData.answers)
     /\ parsedData.answers["sleep"] # Num(0)
     /\ parsedData.answers["alcohol"] # Bool(TRUE)) =>
        /\ ~factorData.threw
        /\ factorData.factors = RuleFactors(parsedData.answers)

\* C20 for the AnswerSets whose alcohol is not true: sleep 0 then decides.
C20_ExactlyTheRulesUnlessRaised ==
    (/\ pc \in {"extracted", "analysed"}
     /\ MeetsConstraints(parsedData.answers)
     /\ parsedData.answers["alcohol"] # Bool(TRUE)) =>
        factorData.factors = RuleFactors(parsedData.answers)

----------------------------------------------------------------------------
(* The score formula *)

\* The weight of a tag as the table of weights states it: any tag outside
\* the table weighs 5.
TableWeight(tag) == IF tag \in FactorTags THEN riskWeights[tag] ELSE 5

\* W: the sum of the weights of the tags from position i on.
RECURSIVE WeightSum(_, _)
WeightSum(factors, i) ==
    IF i > Len(factors) THEN 0
    ELSE TableWeight(factors[i]) + WeightSum(factors, i + 1)

\* E: floor((age - 50) / 5) * 2 when age > 50, 0 otherwise, the age in tenths.
Escalator(age) ==
    IF age.t = "number" /\ age.n > 500 THEN ((age.n - 500) \div 50) * 2 ELSE 0

\* min(100, W + E)
FormulaScore(factors, age) ==
    LET sum == WeightSum(factors, 1) + Escalator(age) IN
    IF sum > 100 THEN 100 ELSE sum

\* C21: calculateRisk returns score = min(100, W + E), W the sum of the fixed
\* weights of the tags, any tag outside the table weighing 5, and E the age
\* escalator; the 'advanced age' weight and E are both added.
C21_ScoreFormula ==
    pc = "scored" =>
        riskData.score = [nan |-> FALSE,
                          v |-> FormulaScore(factorData.factors, parsedData.answers["age"])]

\* C21 for the lists whose tags are in the table or that no object inherits.
C21_ScoreFormulaOwnTags ==
    (/\ pc = "scored"
     /\ \A i \in 1..Len(factorData.factors) : factorData.factors[i] \notin InheritedNames)
        => riskData.score = [nan |-> FALSE,
                             v |-> FormulaScore(factorData.factors,
                                                parsedData.answers["age"])]

\* C21 for the high-risk reference AnswerSet in the handler: eight tags, the
\* score clamped to 100, level high.
C21_HighRiskReference ==
    (Count(calls, "calculateRisk") = 1 /\ parsedData.answers = HighRiskProfile) =>
        /\ factorData.factors = <<"advanced age", "smoking", "low exercise", "poor diet",
                                  "high fat intake", "obesity", "poor sleep",
                                  "alcohol consumption">>
        /\ WeightSum(factorData.factors, 1) + Escalator(parsedData.answers["age"]) > 100
        /\ riskData.score = [nan |-> FALSE, v |-> 100]
        /\ riskData.risk_level = "high"

----------------------------------------------------------------------------
(* The rationale *)

\* C22: the rationale of calculateRisk is the prefix of the factor list of
\* length min(3, number of factors), in the order extractFactors detected
\* them, whatever their weights.
C22_RationalePrefix ==
    pc = "analysed" =>
        /\ Len(riskData.rationale)
              = (IF Len(factorData.factors) < 3 THEN Len(factorData.factors) ELSE 3)
        /\ \A i \in 1..Len(riskData.rationale) :
              riskData.rationale[i] = factorData.factors[i]

\* C22's case: the fourth tag weighs more than each of the first three, and
\* the rationale is the first three.
C22_Witness ==
    /\ pc = "analysed"
    /\ factorData.factors = <<"advanced age", "low exercise", "poor diet", "obesity">>
    /\ \A i \in 1..3 : TableWeight(factorData.factors[i]) < TableWeight("obesity")
    /\ riskData.rationale = <<"advanced age", "low exercise", "poor diet">>

----------------------------------------------------------------------------
(* The schema gate *)

\* The two earlier gates let the input through.
ReachesSchemaGate ==
    Len(parsedData.missing_fields) <= 2 /\ parsedData.confidence >= 30

\* C23: validateInput accepts an AnswerSet only if every field present meets
\* its constraint, by type and by range, and no other key is present; an
\* AnswerSet that does not and reaches the schema gate is rejected with
\* invalid_data.
C23_SchemaGate ==
    pc = "validated" =>
        /\ validation.isValid => MeetsConstraints(parsedData.answers)
        /\ (ReachesSchemaGate /\ ~MeetsConstraints(parsedData.answers))
              => (~validation.isValid /\ validation.response.status = "invalid_data")

\* A field holds a string that Joi converts to the type of its constraint.
HoldsConvertible(a) ==
    \/ \E k \in {"age", "bmi", "sleep"} : a[k].t = "string" /\ a[k].s \in NumericStrings
    \/ \E k \in {"smoker", "alcohol"} : a[k].t = "string" /\ a[k].s \in BooleanStrings

\* C23 for the AnswerSets without a string that Joi converts.
C23_SchemaGateTyped ==
    (pc = "validated" /\ ~HoldsConvertible(parsedData.answers)) =>
        /\ validation.isValid => MeetsConstraints(parsedData.answers)
        /\ (ReachesSchemaGate /\ ~MeetsConstraints(parsedData.answers))
              => (~validation.isValid /\ validation.response.status = "invalid_data")

----------------------------------------------------------------------------
(* The confidences of processHealthProfile's result *)

\* The keys of processHealthProfile's result besides the answers and the
\* missing fields: those that hold a confidence.
ConfidenceKeys(pd) == DOMAIN pd \ {"answers", "missing_fields"}

\* processHealthProfile has returned.
Parsed == Count(calls, "processHealthProfile") = 1 /\ pc \notin {"start", "ocr", "parsing"}
              /\ req.ocrOutcome # "throws"

\* C24: for an image, processHealthProfile's result holds the extraction
\* confidence and the OCR engine's confidence as two values, both passed to
\* validateInput; for a text it holds the extraction confidence alone.
C24_OcrConfidenceApart ==
    Parsed =>
        /\ parsedData.confidence
              = calculateConfidence(parsedData.answers, parsedData.missing_fields,
                                    IF req.hasFile THEN "image" ELSE "text")
        /\ Cardinality(ConfidenceKeys(parsedData)) = (IF req.hasFile THEN 2 ELSE 1)

\* C24 for a text: the result holds the extraction confidence alone.
C24_TextConfidence ==
    (Parsed /\ ~req.hasFile) =>
        /\ parsedData.confidence
              = calculateConfidence(parsedData.answers, parsedData.missing_fields, "text")
        /\ ConfidenceKeys(parsedData) = {"confidence"}

\* For an image the result is the same whatever confidence the engine reported.
C24_OcrConfidenceDropped ==
    (Parsed /\ req.hasFile) =>
        /\ req.ocrConfidence \in OcrConfidences
        /\ ConfidenceKeys(parsedData) = {"confidence"}
        /\ parsedData = processHealthProfile(parsedData.answers, "image")

----------------------------------------------------------------------------
(* The list of the static strategy *)

\* One item per tag that has a table entry, in factor order; a tag without an
\* entry is skipped.
RECURSIVE TableItems(_, _)
TableItems(factors, i) ==
    IF i > Len(factors) THEN <<>>
    ELSE (IF factors[i] \in FactorTags THEN <<factorRecommendations[factors[i]]>> ELSE <<>>)
         \o TableItems(factors, i + 1)

\* An item of the list contains the word.
Mentions(list, word) == \E i \in 1..Len(list) : Includes(list[i], word)

\* The list built in insertion order: the table items, the healthcare item,
\* the stress-management item, the hydration item; then its first 5 items.
InsertionOrderList(riskLevel, factors) ==
    LET items == TableItems(factors, 1)
        withHealthcare == IF riskLevel = "high" /\ ~Mentions(items, "healthcare")
                          THEN Append(items, healthcareRec) ELSE items
        withStress == IF riskLevel \in {"medium", "high"} /\ ~Mentions(withHealthcare, "stress")
                      THEN Append(withHealthcare, stressRec) ELSE withHealthcare
        withHydration == IF Len(withStress) < 3 THEN Append(withStress, hydrationRec)
                         ELSE withStress
    IN  SubSeq(withHydration, 1, IF Len(withHydration) < 5 THEN Len(withHydration) ELSE 5)

\* The static strategy produced the result.
StaticRan == pc = "recommended" /\ ~FromAI

\* C25: the static strategy returns, without error, the first 5 items of the
\* list built in insertion order, a tag without a table entry being skipped.
C25_InsertionOrder ==
    StaticRan =>
        /\ ~recommendations.threw
        /\ recommendations.recommendations
              = InsertionOrderList(riskData.risk_level, factorData.factors)

\* C25 for the lists whose tags are in the table or that no object inherits.
C25_InsertionOrderOwnTags ==
    (/\ StaticRan
     /\ \A i \in 1..Len(factorData.factors) : factorData.factors[i] \notin InheritedNames)
        => /\ ~recommendations.threw
           /\ recommendations.recommendations
                 = InsertionOrderList(riskData.risk_level, factorData.factors)

----------------------------------------------------------------------------
(* parseHealthSurvey applied to the texts that begin with '{' *)

\* The most tokens of a text after its opening brace.
MaxBodyTokens == 4

\* The tokens after the opening brace: names in quotes and without, values,
\* and punctuation.
BraceTokens == {"\"age\"", "age", "smoker", ":", "42", "true", ",", "}"}

\* Longer texts: two members, a name twice, a name outside the schema, and a
\* comma before the closing brace.
LongerTexts ==
    {<<"{", "\"age\"", ":", "42", ",", "\"smoker\"", ":", "true", "}">>,
     <<"{", "\"age\"", ":", "42", ",", "\"age\"", ":", "7", "}">>,
     <<"{", "\"note\"", ":", "\"smoker\"", ",", "\"smoker\"", ":", "false", "}">>,
     <<"{", "\"age\"", ":", "42", ",", "smoker", ":", "true", ",", "}">>}

BraceTexts == {<<"{">> \o body : body \in SeqsUpTo(BraceTokens, MaxBodyTokens)}
                  \cup LongerTexts

InitFastPath ==
    /\ pc = "parse"
    /\ \E text \in BraceTexts : req = [NoRequest EXCEPT !.hasText = TRUE, !.text = text]
    /\ parsedData = NoParsedData
    /\ validation = NoValidation
    /\ factorData = NoFactorData
    /\ riskData = NoRiskData
    /\ recommendations = NoRecommendations
    /\ response = NotSent
    /\ calls = <<>>

SpecFastPath == InitFastPath /\ [][ParseText]_vars

\* C26: for a text that begins with '{', parseHealthSurvey never raises; when
\* the text parses as JSON the AnswerSet is the parsed object, with no pattern
\* applied, and when it does not the AnswerSet is what the patterns extract
\* from the same text.
C26_FastPath ==
    /\ pc # "raised"
    /\ pc = "parsed" =>
          /\ IsJsonObject(req.text) =>
                parsedData.answers = JsonMembers(req.text, 2, [k \in Keys |-> Absent])
          /\ ~IsJsonObject(req.text) => parsedData.answers = PatternExtraction(req.text)
          /\ req.text = <<"{", "\"age\"", ":", "42", "}">> =>
                parsedData.answers = [k \in Keys |-> IF k = "age" THEN Num(420) ELSE Absent]
          /\ req.text = <<"{", "\"age\"", ":", "42">> =>
                parsedData.answers = [k \in Keys |-> Absent]
          /\ req.text = <<"{", "age", ":", "42", "}">> =>
                parsedData.answers = [k \in Keys |-> IF k = "age" THEN Num(420) ELSE Absent]

\* C26's case: a text that begins with '{' and is no JSON has been parsed by
\* the patterns, which found the age and the smoker.
C26_Witness ==
    /\ pc = "parsed"
    /\ req.text = <<"{", "\"age\"", ":", "42", ",", "smoker", ":", "true", ",", "}">>
    /\ JSONparse(req.text).threw
    /\ parsedData.answers["age"] = Absent
    /\ parsedData.answers["smoker"] = Bool(TRUE)
    /\ parsedData.missing_fields = <<"age", "exercise", "diet">>

----------------------------------------------------------------------------
(* routes.js: two /analyze requests in flight *)

\* In this specification every variable but calls holds one value per
\* invocation of the handler; calls is the log that all invocations write.
Requests == {1, 2}

\* A mutant of Frame: parsedData, factorData, riskData and recommendations
\* declared at module level, so that every invocation uses the same ones.
Frame_Module(r) == 1

\* The variables of the handler are declared inside it (let parsedData, const
\* factorData, ...), and those of each stage inside the stage: every
\* invocation r has its own.
Frame(r) == r

\* What a request is and how its collaborators answer it: the input kind, the
\* answers its text holds, the OCR's outcome, the credential and the AI
\* call's outcome.
RequestInputs ==
    {[NoRequest EXCEPT !.hasFile = file, !.hasText = ~file, !.written = answers,
                       !.ocrOutcome = ocr, !.hasKey = ai # "", !.aiOutcome = ai,
                       !.aiText = IF ai = "text" THEN <<<<"1", ".", " ", "a">>>> ELSE <<>>]
        : file \in BOOLEAN, answers \in {LowRiskProfile, HighRiskProfile, SparseProfile},
          ocr \in OcrOutcomes, ai \in {"", "text", "throws", "hangs"}}

InitTwo ==
    /\ pc = [r \in Requests |-> "start"]
    /\ req \in [Requests -> {i \in RequestInputs : i.hasFile \/ i.ocrOutcome = "text"}]
    /\ parsedData = [r \in Requests |-> NoParsedData]
    /\ validation = [r \in Requests |-> NoValidation]
    /\ factorData = [r \in Requests |-> NoFactorData]
    /\ riskData = [r \in Requests |-> NoRiskData]
    /\ recommendations = [r \in Requests |-> NoRecommendations]
    /\ response = [r \in Requests |-> NotSent]
    /\ calls = <<>>

\* The handler of request r up to its first await: processHealthProfile is
\* called, and with it the OCR for an image.
Begin(r) ==
    /\ pc[r] = "start"
    /\ pc' = [pc EXCEPT ![r] = "awaiting_profile"]
    /\ calls' = Append(calls, <<r, "processHealthProfile">>)
    /\ UNCHANGED <<req, parsedData, validation, factorData, riskData, recommendations,
                   response>>

\* processHealthProfile settles, and the handler runs to its next await, the
\* call of generateRecommendations, or to the response it sends before it.
Analyse(r) ==
    /\ pc[r] = "awaiting_profile"
    /\ LET f == Frame(r)
           pd == processHealthProfile(req[r].written,
                                      IF req[r].hasFile THEN "image" ELSE "text")
           v == validateInput(pd)
           fd == extractFactors(pd.answers)
           rd == calculateRisk(fd.factors, pd.answers)
       IN  IF req[r].hasFile /\ req[r].ocrOutcome = "throws"
           THEN /\ response' = [response EXCEPT ![r] = ErrorResponse(500, "ocr failed")]
                /\ pc' = [pc EXCEPT ![r] = "responded"]
                /\ UNCHANGED <<parsedData, validation, factorData, riskData>>
           ELSE /\ parsedData' = [parsedData EXCEPT ![f] = pd]
                /\ validation' = [validation EXCEPT ![f] = v]
                /\ IF ~v.isValid
                   THEN /\ response' = [response EXCEPT
                                           ![r] = [http |-> 400, body |-> v.response]]
                        /\ pc' = [pc EXCEPT ![r] = "responded"]
                        /\ UNCHANGED <<factorData, riskData>>
                   ELSE IF fd.threw
                   THEN /\ response' = [response EXCEPT ![r] = ErrorResponse(500, "TypeError")]
                        /\ pc' = [pc EXCEPT ![r] = "responded"]
                        /\ factorData' = [factorData EXCEPT ![f] = fd]
                        /\ UNCHANGED riskData
                   ELSE /\ factorData' = [factorData EXCEPT ![f] = fd]
                        /\ riskData' = [riskData EXCEPT ![f] = rd]
                        /\ pc' = [pc EXCEPT ![r] = "awaiting_recommendations"]
                        /\ UNCHANGED response
    /\ calls' = Append(calls, <<r, "validateInput">>)
    /\ UNCHANGED <<req, recommendations>>

\* generateRecommendations settles, and the handler sends the result it
\* builds from its variables.  An AI call that never settles leaves the
\* handler at its await.
Finish(r) ==
    /\ pc[r] = "awaiting_recommendations"
    /\ req[r].aiOutcome # "hangs"
    /\ LET f == Frame(r)
           rec == generateRecommendations(riskData[f].risk_level, factorData[f].factors,
                                          req[r].hasKey, req[r].aiOutcome, req[r].aiText)
       IN  /\ recommendations' = [recommendations EXCEPT ![f] = rec]
           /\ response' = [response EXCEPT
                  ![r] = IF rec.threw THEN ErrorResponse(500, "TypeError")
                         ELSE [http |-> 200,
                               body |-> Combine(parsedData[f], factorData[f],
                                                riskData[f], rec)]]
    /\ pc' = [pc EXCEPT ![r] = "responded"]
    /\ calls' = Append(calls, <<r, "generateRecommendations">>)
    /\ UNCHANGED <<req, parsedData, validation, factorData, riskData>>

NextTwo == \E r \in Requests : Begin(r) \/ Analyse(r) \/ Finish(r)

SpecTwo == InitTwo /\ [][NextTwo]_vars

\* The response of a request that is alone: the stages applied in sequence to
\* what the request holds.
AloneResponse(input) ==
    LET pd == processHealthProfile(input.written, IF input.hasFile THEN "image" ELSE "text")
        v == validateInput(pd)
        fd == extractFactors(pd.answers)
        rd == calculateRisk(fd.factors, pd.answers)
        rec == generateRecommendations(rd.risk_level, fd.factors, input.hasKey,
                                       input.aiOutcome, input.aiText)
    IN  IF input.hasFile /\ input.ocrOutcome = "throws" THEN ErrorResponse(500, "ocr failed")
        ELSE IF ~v.isValid THEN [http |-> 400, body |-> v.response]
        ELSE IF fd.threw \/ rec.threw THEN ErrorResponse(500, "TypeError")
        ELSE [http |-> 200, body |-> Combine(pd, fd, rd, rec)]

\* C27: in every interleaving of two /analyze requests at their awaits, the
\* response of each is the response it gets when it is alone.
C27_Isolation ==
    \A r \in Requests : pc[r] = "responded" => response[r] = AloneResponse(req[r])

\* C27's case: the second request was analysed while the first waited for its
\* recommendations, the two hold different answers, and both were answered ok.
C27_Witness ==
    /\ pc[1] = "responded" /\ pc[2] = "responded"
    /\ req[1].written = LowRiskProfile /\ req[2].written = HighRiskProfile
    /\ Len(calls) = 6
    /\ calls[3] = <<2, "processHealthProfile">>
    /\ calls[4] = <<2, "validateInput">>
    /\ calls[5] = <<1, "generateRecommendations">>
    /\ response[1].http = 200 /\ response[1].body.risk_level = "low"
    /\ response[2].http = 200 /\ response[2].body.risk_level = "high"

----------------------------------------------------------------------------
(* ocr.js and guardrails.js: the confidence that reaches the confidence gate *)

----------------------------------------------------------------------------
(* factors.js and risk.js after an accepted validation *)

\* C29: for every AnswerSet that validateInput accepts, alcohol given as the
\* boolean true or false included, extractFactors and calculateRisk complete
\* without raising: an accepted request is never answered 500.
C29_AcceptedNeverRaises ==
    validation.isValid => (~factorData.threw /\ response.http # 500)

\* C29 holds for every accepted AnswerSet but those with alcohol the boolean
\* true: alcohol false is falsy and is never lower-cased.
C29_AcceptedNeverRaisesButAlcoholTrue ==
    (validation.isValid /\ parsedData.answers["alcohol"] # Bool(TRUE))
        => (~factorData.threw /\ response.http # 500)

\* An accepted request with alcohol the boolean false that was answered ok.
C29_AlcoholFalseAnswered ==
    /\ validation.isValid
    /\ parsedData.answers["alcohol"] = Bool(FALSE)
    /\ pc = "responded"
    /\ response.http = 200

----------------------------------------------------------------------------
(* recommendations.js: the static strategy on the factors of the extractor *)

\* generateStaticRecommendations on the level and the factors of the analysis.
AdviseExtracted ==
    /\ pc = "analysed"
    /\ recommendations' = generateStaticRecommendations(riskData.risk_level,
                                                        factorData.factors)
    /\ pc' = "advised"
    /\ calls' = Append(calls, "generateRecommendations")
    /\ UNCHANGED <<req, parsedData, validation, factorData, riskData, response>>

SpecAdvice == InitAnalysis /\ [][ExtractOnly \/ ScoreExtracted \/ AdviseExtracted]_vars

\* C30: whenever the risk level is high, the list that the static strategy
\* returns, after its truncation to 5 items, has an item that mentions
\* 'healthcare', for every factor list that extractFactors produces.
C30_HighRiskHealthcare ==
    (pc = "advised" /\ riskData.risk_level = "high")
        => Mentions(recommendations.recommendations, "healthcare")

\* C30 holds for the factor lists with fewer than 5 tags, and for those with
\* 'obesity' among their first 5 tags.
C30_HighRiskHealthcareWithinFive ==
    (/\ pc = "advised"
     /\ riskData.risk_level = "high"
     /\ \/ Len(factorData.factors) < 5
        \/ \E i \in 1..5 : factorData.factors[i] = "obesity")
        => Mentions(recommendations.recommendations, "healthcare")

\* A high-risk list of fewer than 5 tags without 'obesity': the healthcare
\* item was appended and kept.
C30_HealthcareAppended ==
    /\ pc = "advised"
    /\ riskData.risk_level = "high"
    /\ Len(factorData.factors) = 4
    /\ \A i \in 1..4 : factorData.factors[i] # "obesity"
    /\ recommendations.recommendations[5] = healthcareRec

====
